---------------------------- MODULE Spec2Model ----------------------------
(***************************************************************************)
(* Flight delay prediction service (server/python_model_service.py).       *)
(*                                                                         *)
(* Numbers.  The service computes with floats; the model computes the same *)
(* expressions exactly, on integers:                                       *)
(*   - a probability is an integer number of millionths (ProbUnit);        *)
(*   - combined_prob is kept in units of 1e-7 (a weight in tenths times a  *)
(*     probability in millionths);                                         *)
(*   - confidence is kept in units of 1e-8 (0.15 = 15 hundredths times an  *)
(*     agreement in millionths);                                           *)
(*   - DelayProbability, LogisticProbability, HistoricalPairProbability    *)
(*     are in units of 1e-4 (round(x, 4)), ConfidencePercent in tenths of  *)
(*     a percent (round(x, 1)).                                            *)
(* An optional value (a missing JSON key, Python's None) is a set with no  *)
(* element or one.                                                         *)
(***************************************************************************)
EXTENDS Integers, Sequences, FiniteSets, TLC

\* ------------------------------------------------------------ bounds ----

\* Longest historical table loaded in the bundle.
MaxRows == 2

\* ------------------------------------------------------------- units ----

ProbUnit == 10^6

None == {}

Some(v) == {v}

TheValue(opt) == CHOOSE v \in opt : TRUE

Abs(x) == IF x < 0 THEN -x ELSE x

Min(a, b) == IF a <= b THEN a ELSE b

\* round(x, ndigits) of a non-negative x held as an integer number of small
\* units, to a unit `d` times larger; a tie goes to the even neighbour.
RoundHalfEven(x, d) ==
    LET q == x \div d
        r == x % d
    IN  IF 2 * r < d THEN q
        ELSE IF 2 * r > d THEN q + 1
        ELSE IF q % 2 = 0 THEN q ELSE q + 1

\* ----------------------------------------------------- request bodies ----

\* A plausible slip: a required field left out of the list.
RequiredFieldsShort == <<"DayOfWeek", "OriginAirportID">>

RequiredFields == <<"DayOfWeek", "OriginAirportID", "DestAirportID">>

FieldNames == {"Month", "DayOfWeek", "Carrier", "OriginAirportID",
               "DestAirportID", "CRSDepTime"}

\* What request.get_json() returns: a JSON object (each field present or
\* not) or a JSON array of strings.
ObjectBody(month, dow, carrier, origin, dest, crs) ==
    [kind |-> "object", items |-> {},
     Month |-> month, DayOfWeek |-> dow, Carrier |-> carrier,
     OriginAirportID |-> origin, DestAirportID |-> dest, CRSDepTime |-> crs]

ArrayBody(items) ==
    [kind |-> "array", items |-> items,
     Month |-> None, DayOfWeek |-> None, Carrier |-> None,
     OriginAirportID |-> None, DestAirportID |-> None, CRSDepTime |-> None]

NoBody == ArrayBody({})

\* `field in request_json`
Contains(b, field) ==
    IF b.kind = "object" THEN b[field] # None ELSE field \in b.items

\* `not request_json`: an empty object or an empty array.
Falsy(b) ==
    IF b.kind = "object" THEN \A f \in FieldNames : b[f] = None
    ELSE b.items = {}

\* request_data.get(key, default)
Get(b, key, default) == IF b[key] = None THEN default ELSE TheValue(b[key])


\* ------------------------------------------------------ predict_delay ----

\* A plausible slip: int(t / 100), which truncates toward zero.
DepHourTruncating(b) ==
    LET t == Get(b, "CRSDepTime", 800)
    IN  IF t >= 0 THEN t \div 100 ELSE -((-t) \div 100)

\* dep_hour = request_data.get('CRSDepTime', 800) // 100   (floor division)
DepHour(b) == Get(b, "CRSDepTime", 800) \div 100

\* The feature record handed to the classifier.
FeaturesOf(b) ==
    [Month           |-> Get(b, "Month", 1),
     DayOfWeek       |-> Get(b, "DayOfWeek", 1),
     Carrier         |-> Get(b, "Carrier", "AA"),
     OriginAirportID |-> Get(b, "OriginAirportID", 10397),
     DestAirportID   |-> Get(b, "DestAirportID", 10721),
     DepHour         |-> DepHour(b)]

NoFeatures ==
    [Month |-> 0, DayOfWeek |-> 0, Carrier |-> "", OriginAirportID |-> 0,
     DestAirportID |-> 0, DepHour |-> 0]

\* pair_rates[(Origin == key[0]) & (Dest == key[1]) & (DayOfWeek == key[2])]:
\* the matching rows, in table order.
PairRow(pair_rates, f) ==
    SelectSeq(pair_rates,
              LAMBDA row : /\ row.OriginAirportID = f.OriginAirportID
                           /\ row.DestAirportID = f.DestAirportID
                           /\ row.DayOfWeek = f.DayOfWeek)

\* A plausible slip: .iloc[-1], the last matching row.
HistoricalLastMatch(md, f) ==
    LET pair_row == PairRow(md.pair_delay_rates, f)
    IN  IF pair_row # <<>>
        THEN [historical_prob     |-> pair_row[Len(pair_row)].smoothed_delay_prob,
              historical_events   |-> pair_row[Len(pair_row)].delay_events,
              historical_total    |-> pair_row[Len(pair_row)].n,
              has_historical_data |-> TRUE]
        ELSE [historical_prob     |-> md.global_delay_prob,
              historical_events   |-> 0,
              historical_total    |-> 0,
              has_historical_data |-> FALSE]

\* A plausible slip: no fallback to the global prior on a lookup miss.
HistoricalNoPrior(md, f) ==
    LET pair_row == PairRow(md.pair_delay_rates, f)
    IN  IF pair_row # <<>>
        THEN [historical_prob     |-> pair_row[1].smoothed_delay_prob,
              historical_events   |-> pair_row[1].delay_events,
              historical_total    |-> pair_row[1].n,
              has_historical_data |-> TRUE]
        ELSE [historical_prob     |-> 0,
              historical_events   |-> 0,
              historical_total    |-> 0,
              has_historical_data |-> FALSE]

\* The historical lookup: the first matching row, or the global prior.
Historical(md, f) ==
    LET pair_row == PairRow(md.pair_delay_rates, f)
    IN  IF pair_row # <<>>
        THEN [historical_prob     |-> pair_row[1].smoothed_delay_prob,
              historical_events   |-> pair_row[1].delay_events,
              historical_total    |-> pair_row[1].n,
              has_historical_data |-> TRUE]
        ELSE [historical_prob     |-> md.global_delay_prob,
              historical_events   |-> 0,
              historical_total    |-> 0,
              has_historical_data |-> FALSE]

\* A plausible slip: `historical_total > 5`.
BlendStrictThreshold(logistic_prob, h) ==
    IF h.has_historical_data /\ h.historical_total > 5
    THEN [combined_prob   |-> 7 * logistic_prob + 3 * h.historical_prob,
          confidence_base |-> 85]
    ELSE IF h.has_historical_data
    THEN [combined_prob   |-> 8 * logistic_prob + 2 * h.historical_prob,
          confidence_base |-> 75]
    ELSE [combined_prob   |-> 9 * logistic_prob + 1 * h.historical_prob,
          confidence_base |-> 65]

\* A plausible slip: weights that do not sum to one in the last tier.
BlendWeightsOverOne(logistic_prob, h) ==
    IF h.has_historical_data /\ h.historical_total >= 5
    THEN [combined_prob   |-> 7 * logistic_prob + 3 * h.historical_prob,
          confidence_base |-> 85]
    ELSE IF h.has_historical_data
    THEN [combined_prob   |-> 8 * logistic_prob + 2 * h.historical_prob,
          confidence_base |-> 75]
    ELSE [combined_prob   |-> 9 * logistic_prob + 2 * h.historical_prob,
          confidence_base |-> 65]

\* The three tiers.  combined_prob in units of 1e-7 (weights in tenths),
\* confidence_base in hundredths.
Blend(logistic_prob, h) ==
    IF h.has_historical_data /\ h.historical_total >= 5
    THEN [combined_prob   |-> 7 * logistic_prob + 3 * h.historical_prob,
          confidence_base |-> 85]
    ELSE IF h.has_historical_data
    THEN [combined_prob   |-> 8 * logistic_prob + 2 * h.historical_prob,
          confidence_base |-> 75]
    ELSE [combined_prob   |-> 9 * logistic_prob + 1 * h.historical_prob,
          confidence_base |-> 65]

\* prediction_agreement = 1.0 - abs(logistic_prob - historical_prob)
PredictionAgreement(logistic_prob, historical_prob) ==
    ProbUnit - Abs(logistic_prob - historical_prob)

\* A plausible slip: the cap left out.
ConfidenceUncapped(logistic_prob, historical_prob, confidence_base) ==
    confidence_base * ProbUnit
        + 15 * PredictionAgreement(logistic_prob, historical_prob)

\* confidence = min(0.95, confidence_base + 0.15 * prediction_agreement),
\* in units of 1e-8.
Confidence(logistic_prob, historical_prob, confidence_base) ==
    Min(95 * ProbUnit,
        confidence_base * ProbUnit
            + 15 * PredictionAgreement(logistic_prob, historical_prob))

\* The local variables of predict_delay at its return statement.
Locals(md, f, logistic_prob) ==
    LET h == Historical(md, f)
        b == Blend(logistic_prob, h)
    IN  [historical_prob      |-> h.historical_prob,
         historical_events    |-> h.historical_events,
         historical_total     |-> h.historical_total,
         has_historical_data  |-> h.has_historical_data,
         combined_prob        |-> b.combined_prob,
         confidence_base      |-> b.confidence_base,
         prediction_agreement |->
             PredictionAgreement(logistic_prob, h.historical_prob),
         confidence           |->
             Confidence(logistic_prob, h.historical_prob, b.confidence_base)]

NoLocals ==
    [historical_prob |-> 0, historical_events |-> 0, historical_total |-> 0,
     has_historical_data |-> FALSE, combined_prob |-> 0,
     confidence_base |-> 0, prediction_agreement |-> 0, confidence |-> 0]

\* The dictionary predict_delay returns.
Result(logistic_prob, l) ==
    [DelayProbability          |-> RoundHalfEven(l.combined_prob, 1000),
     ConfidencePercent         |-> RoundHalfEven(l.confidence, 100000),
     LogisticProbability       |-> RoundHalfEven(logistic_prob, 100),
     HistoricalPairProbability |-> RoundHalfEven(l.historical_prob, 100),
     PredictionMethod          |-> "Trained Model",
     HasHistoricalData         |-> l.has_historical_data,
     HistoricalEvents          |->
         IF l.has_historical_data THEN Some(l.historical_events) ELSE None,
     HistoricalTotal           |->
         IF l.has_historical_data THEN Some(l.historical_total) ELSE None]

\* ---------------------------------------------------------- responses ----

\* A response of the service: the endpoint, the HTTP status and the JSON.
PredictionResponse(result) ==
    [endpoint |-> "predict", status |-> 200, error |-> "",
     prediction |-> Some(result), model_loaded |-> None]

ErrorResponse(status, message) ==
    [endpoint |-> "predict", status |-> status, error |-> message,
     prediction |-> None, model_loaded |-> None]

NoResponse ==
    [endpoint |-> "", status |-> 0, error |-> "",
     prediction |-> None, model_loaded |-> None]

\* A plausible slip: the flag reports the service, not the bundle.
HealthAlwaysLoaded(md) ==
    [endpoint |-> "health", status |-> 200, error |-> "",
     prediction |-> None, model_loaded |-> Some(TRUE)]

\* GET /health: 'model_loaded': model_data is not None
HealthResponse(md) ==
    [endpoint |-> "health", status |-> 200, error |-> "",
     prediction |-> None, model_loaded |-> Some(md # None)]

MissingMessage(field) ==
    CASE field = "DayOfWeek" -> "Missing required field: DayOfWeek"
      [] field = "OriginAirportID" -> "Missing required field: OriginAirportID"
      [] field = "DestAirportID" -> "Missing required field: DestAirportID"

\* The checks of predict() before it calls predict_delay: the response they
\* end the request with, or None when the request passes.
ValidationError(md, b) ==
    LET missing == {i \in 1..Len(RequiredFields) :
                        ~Contains(b, RequiredFields[i])}
        first == CHOOSE i \in missing : \A j \in missing : i <= j
    IN  IF md = None THEN Some(ErrorResponse(500, "Model not loaded"))
        ELSE IF Falsy(b) THEN Some(ErrorResponse(400, "No JSON data provided"))
        ELSE IF missing # {}
        THEN Some(ErrorResponse(400, MissingMessage(RequiredFields[first])))
        ELSE None

\* -------------------------------------------------------------- state ----

VARIABLES
    phase,          \* "init": module imported; "serving"; "exited"
    model_data,     \* the global: None, or the loaded bundle
    pc,             \* per client: where its request is
    body,           \* per client: the JSON of its request
    features,       \* per client: predict_delay's feature record
    logistic_prob,  \* per client: predict_delay's logistic_prob, once set
    locals,         \* per client: predict_delay's other locals, once set
    exc,            \* per client: the exception in flight ("" when none)
    consulted,      \* per client: what the request has consulted so far
    resp            \* per client: the response sent

vars == <<phase, model_data, pc, body, features, logistic_prob, locals, exc,
          consulted, resp>>

Clients == {"c1", "c2"}

NotConsulted == [classifier |-> "no", table |-> FALSE]

\* The state of the process once the module is imported (line 18).
Init ==
    /\ phase = "init"
    /\ model_data = None
    /\ pc = [c \in Clients |-> "idle"]
    /\ body = [c \in Clients |-> NoBody]
    /\ features = [c \in Clients |-> NoFeatures]
    /\ logistic_prob = [c \in Clients |-> None]
    /\ locals = [c \in Clients |-> NoLocals]
    /\ exc = [c \in Clients |-> ""]
    /\ consulted = [c \in Clients |-> NotConsulted]
    /\ resp = [c \in Clients |-> NoResponse]

requestVars == <<pc, body, features, logistic_prob, locals, exc, consulted,
                 resp>>

\* ------------------------------------------------------------ startup ----

\* __main__: load_model() returns, app.run() starts serving.
LoadModelOk(bundle) ==
    /\ phase = "init"
    /\ model_data' = Some(bundle)
    /\ phase' = "serving"
    /\ UNCHANGED requestVars

\* __main__: joblib.load raises; load_model logs and re-raises, the
\* exception leaves __main__ before app.run() and the process ends.
LoadModelFail ==
    /\ phase = "init"
    /\ phase' = "exited"
    /\ UNCHANGED <<model_data, requestVars>>

\* The module is imported by a WSGI host (__name__ is not '__main__'):
\* load_model() is never called and `app` is served with model_data None.
ServeImported ==
    /\ phase = "init"
    /\ phase' = "serving"
    /\ UNCHANGED <<model_data, requestVars>>

\* ----------------------------------------------------------- requests ----

\* A POST /predict arrives and predict() is entered.
Receive(c, b) ==
    /\ phase = "serving"
    /\ pc[c] = "idle"
    /\ pc' = [pc EXCEPT ![c] = "predict"]
    /\ body' = [body EXCEPT ![c] = b]
    /\ UNCHANGED <<phase, model_data, features, logistic_prob, locals, exc,
                   consulted, resp>>

\* GET /health
HealthCheck(c) ==
    /\ phase = "serving"
    /\ pc[c] = "idle"
    /\ resp' = [resp EXCEPT ![c] = HealthResponse(model_data)]
    /\ pc' = [pc EXCEPT ![c] = "responded"]
    /\ UNCHANGED <<phase, model_data, body, features, logistic_prob, locals,
                   exc, consulted>>

\* predict(), lines 136-147: the bundle, the body, the required fields.
Validate(c) ==
    /\ pc[c] = "predict"
    /\ LET err == ValidationError(model_data, body[c])
       IN  IF err # None
           THEN /\ resp' = [resp EXCEPT ![c] = TheValue(err)]
                /\ pc' = [pc EXCEPT ![c] = "responded"]
           ELSE /\ pc' = [pc EXCEPT ![c] = "features"]
                /\ UNCHANGED resp
    /\ UNCHANGED <<phase, model_data, body, features, logistic_prob, locals,
                   exc, consulted>>

\* predict_delay, lines 46-61.  A body that is not an object has no .get:
\* line 48 raises AttributeError.
PrepareFeatures(c) ==
    /\ pc[c] = "features"
    /\ IF body[c].kind = "object"
       THEN /\ features' = [features EXCEPT ![c] = FeaturesOf(body[c])]
            /\ pc' = [pc EXCEPT ![c] = "classify"]
            /\ UNCHANGED exc
       ELSE /\ exc' = [exc EXCEPT ![c] = "AttributeError"]
            /\ pc' = [pc EXCEPT ![c] = "raised"]
            /\ UNCHANGED features
    /\ UNCHANGED <<phase, model_data, body, logistic_prob, locals, consulted,
                   resp>>

\* A plausible slip: a default probability in place of a failed prediction.
ClassifyWithDefault(c, outcome) ==
    /\ pc[c] = "classify"
    /\ consulted' = [consulted EXCEPT ![c].classifier =
                        IF outcome = None THEN "raised" ELSE "returned"]
    /\ logistic_prob' = [logistic_prob EXCEPT ![c] =
                            IF outcome = None THEN Some(ProbUnit \div 2)
                            ELSE outcome]
    /\ pc' = [pc EXCEPT ![c] = "lookup"]
    /\ UNCHANGED <<phase, model_data, body, features, locals, exc, resp>>

\* predict_delay, lines 63-65: predict_proba on the feature record.  The
\* classifier is a black box: it returns a probability (Some(p)) or raises
\* (None).
Classify(c, outcome) ==
    /\ pc[c] = "classify"
    /\ consulted' = [consulted EXCEPT ![c].classifier =
                        IF outcome = None THEN "raised" ELSE "returned"]
    /\ IF outcome = None
       THEN /\ exc' = [exc EXCEPT ![c] = "ClassifierError"]
            /\ pc' = [pc EXCEPT ![c] = "raised"]
            /\ UNCHANGED logistic_prob
       ELSE /\ logistic_prob' = [logistic_prob EXCEPT ![c] = outcome]
            /\ pc' = [pc EXCEPT ![c] = "lookup"]
            /\ UNCHANGED exc
    /\ UNCHANGED <<phase, model_data, body, features, locals, resp>>

\* A plausible slip: a lookup miss is cached in the shared table.
LookupAndBlendCaching(c) ==
    /\ pc[c] = "lookup"
    /\ LET md == TheValue(model_data)
           l == Locals(md, features[c], TheValue(logistic_prob[c]))
           row == [OriginAirportID |-> features[c].OriginAirportID,
                   DestAirportID |-> features[c].DestAirportID,
                   DayOfWeek |-> features[c].DayOfWeek,
                   smoothed_delay_prob |-> md.global_delay_prob,
                   delay_events |-> 0, n |-> 0]
       IN  /\ locals' = [locals EXCEPT ![c] = l]
           /\ resp' = [resp EXCEPT ![c] =
                  PredictionResponse(Result(TheValue(logistic_prob[c]), l))]
           /\ model_data' =
                  IF l.has_historical_data THEN model_data
                  ELSE Some([md EXCEPT !.pair_delay_rates = Append(@, row)])
    /\ consulted' = [consulted EXCEPT ![c].table = TRUE]
    /\ pc' = [pc EXCEPT ![c] = "responded"]
    /\ UNCHANGED <<phase, body, features, logistic_prob, exc>>

\* predict_delay, lines 67-117, and predict(), line 150: the lookup, the
\* blend, the confidence, the result and its response.
LookupAndBlend(c) ==
    /\ pc[c] = "lookup"
    /\ LET l == Locals(TheValue(model_data), features[c],
                       TheValue(logistic_prob[c]))
       IN  /\ locals' = [locals EXCEPT ![c] = l]
           /\ resp' = [resp EXCEPT ![c] =
                  PredictionResponse(Result(TheValue(logistic_prob[c]), l))]
    /\ consulted' = [consulted EXCEPT ![c].table = TRUE]
    /\ pc' = [pc EXCEPT ![c] = "responded"]
    /\ UNCHANGED <<phase, model_data, body, features, logistic_prob, exc>>

\* predict_delay, lines 119-121 (log, re-raise) and predict(), lines
\* 152-154: the exception becomes a 500 whose error is str(e).
RespondError(c) ==
    /\ pc[c] = "raised"
    /\ resp' = [resp EXCEPT ![c] = ErrorResponse(500, exc[c])]
    /\ pc' = [pc EXCEPT ![c] = "responded"]
    /\ UNCHANGED <<phase, model_data, body, features, logistic_prob, locals,
                   exc, consulted>>

\* The client has its response; the next request starts from nothing.
Finish(c) ==
    /\ pc[c] = "responded"
    /\ pc' = [pc EXCEPT ![c] = "idle"]
    /\ body' = [body EXCEPT ![c] = NoBody]
    /\ features' = [features EXCEPT ![c] = NoFeatures]
    /\ logistic_prob' = [logistic_prob EXCEPT ![c] = None]
    /\ locals' = [locals EXCEPT ![c] = NoLocals]
    /\ exc' = [exc EXCEPT ![c] = ""]
    /\ consulted' = [consulted EXCEPT ![c] = NotConsulted]
    /\ resp' = [resp EXCEPT ![c] = NoResponse]
    /\ UNCHANGED <<phase, model_data>>

\* ------------------------------------------------------------- inputs ----

Row(o, d, w, p, e, total) ==
    [OriginAirportID |-> o, DestAirportID |-> d, DayOfWeek |-> w,
     smoothed_delay_prob |-> p, delay_events |-> e, n |-> total]

Bundle(rates, prior) ==
    [pair_delay_rates |-> rates, global_delay_prob |-> prior]

SeqsUpTo(S, k) == UNION {[1..i -> S] : i \in 0..k}

\* Rows of the historical table: one key with samples of 50, 5, 4 and 0
\* observations, and a second key whose rate is the extreme 1.0.
CoreRows ==
    {Row(10397, 10721, 3, 420000, 21, 50),
     Row(10397, 10721, 3, 285714, 1, 5),
     Row(10397, 10721, 3, 333333, 1, 4),
     Row(10397, 10721, 3, 500000, 0, 0),
     Row(10140, 10721, 3, ProbUnit, 48, 48)}

CorePriors == {0, 180000, 181235, ProbUnit}

CoreBundles ==
    {Bundle(t, g) : t \in SeqsUpTo(CoreRows, MaxRows), g \in CorePriors}

\* Requests: every key that differs from the table's in one field, the
\* departure times of the scenarios, optional fields given and left out,
\* and bodies the validation ends.
CoreBodies ==
    {ObjectBody(None, Some(3), None, Some(o), Some(10721), None) :
        o \in {10397, 10140, 12478}}
    \cup {ObjectBody(None, Some(3), None, Some(10397), Some(11298), None),
          ObjectBody(None, Some(1), None, Some(10397), Some(10721), None),
          ObjectBody(Some(7), Some(3), Some("DL"), Some(10397), Some(10721),
                     None)}
    \cup {ObjectBody(None, Some(3), None, Some(10397), Some(10721), Some(t)) :
            t \in {800, 1345, 2359, 2459, 0, -30}}
    \cup {ObjectBody(None, Some(3), None, Some(10397), None, Some(1345)),
          ArrayBody({}),
          ArrayBody({"DayOfWeek", "OriginAirportID", "DestAirportID"})}

\* What the classifier does with a feature record: raises, or returns the
\* probability of class 1.
CoreOutcomes ==
    {None} \cup {Some(p) : p \in {0, 250000, 300000, 123456, 999999, ProbUnit}}

ServiceBundles ==
    {Bundle(<<Row(10397, 10721, 3, 420000, 21, 50)>>, 180000),
     Bundle(<<>>, 181235)}

\* Requests with every subset of the required fields, and two arrays.
ServiceBodies ==
    {ObjectBody(None, w, None, o, d, None) :
        w \in {None, Some(3)}, o \in {None, Some(10397)},
        d \in {None, Some(10721)}}
    \cup {ArrayBody({}),
          ArrayBody({"DayOfWeek", "OriginAirportID", "DestAirportID"})}

ServiceOutcomes == {None, Some(300000)}

\* ------------------------------------------------------ specifications ----

\* The service with concurrent clients.
Next ==
    \/ \E bundle \in ServiceBundles : LoadModelOk(bundle)
    \/ LoadModelFail
    \/ ServeImported
    \/ \E c \in Clients, b \in ServiceBodies : Receive(c, b)
    \/ \E c \in Clients : HealthCheck(c)
    \/ \E c \in Clients : Validate(c)
    \/ \E c \in Clients : PrepareFeatures(c)
    \/ \E c \in Clients, outcome \in ServiceOutcomes : Classify(c, outcome)
    \/ \E c \in Clients : LookupAndBlend(c)
    \/ \E c \in Clients : RespondError(c)
    \/ \E c \in Clients : Finish(c)

Spec == Init /\ [][Next]_vars

\* The service with one client, over the wide inputs of predict_delay.
NextCore ==
    \/ \E bundle \in CoreBundles : LoadModelOk(bundle)
    \/ LoadModelFail
    \/ ServeImported
    \/ \E b \in CoreBodies : Receive("c1", b)
    \/ HealthCheck("c1")
    \/ Validate("c1")
    \/ PrepareFeatures("c1")
    \/ \E outcome \in CoreOutcomes : Classify("c1", outcome)
    \/ LookupAndBlend("c1")
    \/ RespondError("c1")
    \/ Finish("c1")

SpecCore == Init /\ [][NextCore]_vars

\* ------------------------------------------------------------- claims ----

Responded(c) == pc[c] = "responded" /\ resp[c].endpoint = "predict"

Predicted(c) == Responded(c) /\ resp[c].prediction # None

Prediction(c) == TheValue(resp[c].prediction)

LoadedTable == TheValue(model_data).pair_delay_rates

LoadedPrior == TheValue(model_data).global_delay_prob

\* The rows of the loaded table whose three key fields equal the request's.
MatchingIndexes(c) ==
    {i \in 1..Len(LoadedTable) :
        /\ Some(LoadedTable[i].OriginAirportID) = body[c].OriginAirportID
        /\ Some(LoadedTable[i].DestAirportID) = body[c].DestAirportID
        /\ Some(LoadedTable[i].DayOfWeek) = body[c].DayOfWeek}

FirstMatch(c) ==
    LoadedTable[CHOOSE i \in MatchingIndexes(c) :
                    \A j \in MatchingIndexes(c) : i <= j]

\* `rounded`, in units d times larger than `exact`'s, is a nearest value.
Nearest(rounded, exact, d) == 2 * Abs(rounded * d - exact) <= d

LogisticOf(c) == TheValue(logistic_prob[c])

InUnitInterval(x) == 0 <= x /\ x <= ProbUnit

\* C1: when the classifier's probability, every row's smoothed_delay_prob
\* and the global prior are in [0,1], the returned DelayProbability is in
\* [0,1] and the returned ConfidencePercent is in [0,100], in every tier.
C1_OutputsInRange ==
    \A c \in Clients :
        (/\ Predicted(c)
         /\ InUnitInterval(LogisticOf(c))
         /\ InUnitInterval(LoadedPrior)
         /\ \A i \in 1..Len(LoadedTable) :
                InUnitInterval(LoadedTable[i].smoothed_delay_prob))
        => /\ 0 <= Prediction(c).DelayProbability
           /\ Prediction(c).DelayProbability <= 10000
           /\ 0 <= Prediction(c).ConfidencePercent
           /\ Prediction(c).ConfidencePercent <= 1000

\* A prediction at the top of the range: both estimates are 1.0.
C1_Witness ==
    \E c \in Clients :
        /\ Predicted(c)
        /\ LogisticOf(c) = ProbUnit
        /\ Prediction(c).DelayProbability = 10000

\* C2: ConfidencePercent never exceeds 95.0: confidence is
\* min(0.95, confidenceBase + 0.15 * (1 - |logisticProb - historicalProb|))
\* with confidenceBase 0.85, 0.75 or 0.65.
C2_ConfidenceCapped ==
    \A c \in Clients :
        Predicted(c) =>
            LET l == locals[c]
                raw == l.confidence_base * ProbUnit
                         + 15 * (ProbUnit
                                 - Abs(LogisticOf(c) - l.historical_prob))
            IN  /\ l.confidence_base \in {85, 75, 65}
                /\ l.confidence = (IF raw > 95 * ProbUnit
                                   THEN 95 * ProbUnit ELSE raw)
                /\ Nearest(Prediction(c).ConfidencePercent, l.confidence,
                           100000)
                /\ Prediction(c).ConfidencePercent <= 950

\* The spec's scenario: 0.30 against 0.42 with n = 50 would give 0.982
\* uncapped, and is reported as 95.0.
C2_Witness ==
    \E c \in Clients :
        /\ Predicted(c)
        /\ LogisticOf(c) = 300000
        /\ locals[c].historical_prob = 420000
        /\ locals[c].confidence_base = 85
        /\ Prediction(c).ConfidencePercent = 950

\* C3: the three tiers: a row with n >= 5 gives 0.7/0.3 and base 0.85, a
\* row with n < 5 gives 0.8/0.2 and base 0.75, no row gives 0.9/0.1 (on the
\* global prior) and base 0.65; DelayProbability is the blend rounded to 4
\* decimals.
C3_ThreeTiers ==
    \A c \in Clients :
        Predicted(c) =>
            LET p == LogisticOf(c)
                l == locals[c]
                hit == MatchingIndexes(c) # {}
            IN  /\ (hit /\ FirstMatch(c).n >= 5) =>
                      /\ l.combined_prob
                           = 7 * p + 3 * FirstMatch(c).smoothed_delay_prob
                      /\ l.confidence_base = 85
                /\ (hit /\ FirstMatch(c).n < 5) =>
                      /\ l.combined_prob
                           = 8 * p + 2 * FirstMatch(c).smoothed_delay_prob
                      /\ l.confidence_base = 75
                /\ ~hit =>
                      /\ l.combined_prob = 9 * p + LoadedPrior
                      /\ l.confidence_base = 65
                /\ Nearest(Prediction(c).DelayProbability, l.combined_prob,
                           1000)
                /\ (hit /\ p = 300000 /\ FirstMatch(c).n = 50
                        /\ FirstMatch(c).smoothed_delay_prob = 420000)
                      => Prediction(c).DelayProbability = 3360
                /\ (~hit /\ p = 250000 /\ LoadedPrior = 180000)
                      => Prediction(c).DelayProbability = 2430

\* The boundary: a row with n = 4 is blended 0.8/0.2.
C3_Witness ==
    \E c \in Clients :
        /\ Predicted(c)
        /\ MatchingIndexes(c) # {}
        /\ FirstMatch(c).n = 4
        /\ LogisticOf(c) = 300000
        /\ Prediction(c).DelayProbability = 3067

\* C4 as amended: a lookup miss is no error; the result has
\* HasHistoricalData false and HistoricalEvents, HistoricalTotal null, the
\* blend uses GlobalPrior, and HistoricalPairProbability is GlobalPrior
\* rounded to 4 decimals.
C4_MissUsesPrior ==
    \A c \in Clients :
        (Responded(c) /\ consulted[c].table /\ MatchingIndexes(c) = {}) =>
            /\ resp[c].status = 200
            /\ resp[c].prediction # None
            /\ Prediction(c).HasHistoricalData = FALSE
            /\ Prediction(c).HistoricalEvents = None
            /\ Prediction(c).HistoricalTotal = None
            /\ locals[c].historical_prob = LoadedPrior
            /\ locals[c].combined_prob = 9 * LogisticOf(c) + LoadedPrior
            /\ Nearest(Prediction(c).HistoricalPairProbability, LoadedPrior,
                       100)

\* A miss under a prior with more than 4 decimals, 0.181235.
C4_Witness ==
    \E c \in Clients :
        /\ Predicted(c)
        /\ MatchingIndexes(c) = {}
        /\ LoadedPrior = 181235
        /\ Prediction(c).HistoricalPairProbability = 1812
        /\ Prediction(c).HasHistoricalData = FALSE

\* C4 as written: on a miss the reported HistoricalPairProbability equals
\* GlobalPrior.
C4_ReportedEqualsPrior ==
    \A c \in Clients :
        (Responded(c) /\ consulted[c].table /\ MatchingIndexes(c) = {}) =>
            /\ Prediction(c).HasHistoricalData = FALSE
            /\ Prediction(c).HistoricalEvents = None
            /\ Prediction(c).HistoricalTotal = None
            /\ locals[c].historical_prob = LoadedPrior
            /\ Prediction(c).HistoricalPairProbability * 100 = LoadedPrior

\* The scheduled departure time of a request, 800 when it gives none.
DepTimeOf(c) ==
    IF body[c].CRSDepTime = None THEN 800 ELSE TheValue(body[c].CRSDepTime)

\* C9: DepHour is the floor of CRSDepTime / 100 (800 when absent), for
\* every value: 800 gives 8, 1345 gives 13, 2359 gives 23, and 2459 gives
\* 24 and reaches the classifier, unvalidated.
C9_DepHourFloor ==
    \A c \in Clients :
        /\ (pc[c] = "classify" \/ consulted[c].classifier # "no") =>
              LET h == features[c].DepHour
                  t == DepTimeOf(c)
              IN  /\ 100 * h <= t
                  /\ t < 100 * h + 100
                  /\ t = 800 => h = 8
                  /\ t = 1345 => h = 13
                  /\ t = 2359 => h = 23
                  /\ t = 2459 => h = 24
        /\ (/\ Responded(c)
            /\ model_data # None
            /\ body[c].kind = "object"
            /\ body[c].DayOfWeek # None
            /\ body[c].OriginAirportID # None
            /\ body[c].DestAirportID # None)
           => /\ consulted[c].classifier # "no"
              /\ resp[c].status # 400

\* A departure time of 2459 answered with a prediction made on hour 24.
C9_Witness ==
    \E c \in Clients :
        /\ Predicted(c)
        /\ body[c].CRSDepTime = Some(2459)
        /\ features[c].DepHour = 24
        /\ consulted[c].classifier = "returned"

\* C10: the lookup matches all three key fields exactly; the first matching
\* row in table order supplies smoothed_delay_prob, delay_events and n
\* (the n that selects the tier), HasHistoricalData is true, and later
\* matching rows change nothing.
C10_FirstMatchWins ==
    \A c \in Clients :
        Predicted(c) =>
            /\ Prediction(c).HasHistoricalData = (MatchingIndexes(c) # {})
            /\ MatchingIndexes(c) # {} =>
                  LET row == FirstMatch(c)
                  IN  /\ locals[c].historical_prob = row.smoothed_delay_prob
                      /\ locals[c].historical_events = row.delay_events
                      /\ locals[c].historical_total = row.n
                      /\ Prediction(c).HistoricalEvents
                            = Some(row.delay_events)
                      /\ Prediction(c).HistoricalTotal = Some(row.n)
                      /\ Nearest(Prediction(c).HistoricalPairProbability,
                                 row.smoothed_delay_prob, 100)
                      /\ locals[c].confidence_base
                            = (IF row.n >= 5 THEN 85 ELSE 75)

\* Two rows under the request's key, in different tiers: the first has
\* n = 4, the second n = 50.
C10_Witness ==
    \E c \in Clients :
        /\ Predicted(c)
        /\ Cardinality(MatchingIndexes(c)) >= 2
        /\ LoadedTable[1].n = 4
        /\ LoadedTable[2].n = 50
        /\ Prediction(c).HistoricalTotal = Some(4)
        /\ locals[c].confidence_base = 75

\* C5: a classifier failure propagates unchanged out of predict_delay: no
\* result is returned, no default probability is substituted, and the
\* request ends with an error response, not a prediction.
C5_ClassifierFailurePropagates ==
    \A c \in Clients :
        consulted[c].classifier = "raised" =>
            /\ pc[c] \in {"raised", "responded"}
            /\ exc[c] = "ClassifierError"
            /\ logistic_prob[c] = None
            /\ locals[c] = NoLocals
            /\ ~consulted[c].table
            /\ pc[c] = "responded" =>
                  /\ resp[c].status = 500
                  /\ resp[c].error = "ClassifierError"
                  /\ resp[c].prediction = None

\* A request answered 500 after its classifier call raised.
C5_Witness ==
    \E c \in Clients :
        /\ Responded(c)
        /\ consulted[c].classifier = "raised"
        /\ resp[c].status = 500

\* The request of client c lacks a required field.
LacksRequired(c) ==
    \/ body[c].kind # "object"
    \/ body[c].DayOfWeek = None
    \/ body[c].OriginAirportID = None
    \/ body[c].DestAirportID = None

\* C6: a /predict request that lacks DayOfWeek, OriginAirportID or
\* DestAirportID is rejected before the core's logic: the classifier and
\* the table are never consulted for it and the core's defaults for those
\* fields are never used; a JSON object that lacks one never enters
\* predict_delay and, with the bundle loaded, is answered 400.
C6_MissingFieldRejected ==
    \A c \in Clients :
        (pc[c] \notin {"idle"} /\ resp[c].endpoint # "health"
              /\ LacksRequired(c)) =>
            /\ consulted[c] = NotConsulted
            /\ features[c] = NoFeatures
            /\ logistic_prob[c] = None
            /\ body[c].kind = "object" => pc[c] \in {"predict", "responded"}
            /\ pc[c] = "responded" =>
                  /\ resp[c].prediction = None
                  /\ resp[c].status \in {400, 500}
                  /\ (body[c].kind = "object" /\ model_data # None)
                        => resp[c].status = 400

\* A request with DayOfWeek and OriginAirportID but no DestAirportID,
\* answered 400 by a service whose bundle is loaded.
C6_Witness ==
    \E c \in Clients :
        /\ Responded(c)
        /\ model_data # None
        /\ body[c].kind = "object"
        /\ body[c].DayOfWeek # None
        /\ body[c].OriginAirportID # None
        /\ body[c].DestAirportID = None
        /\ resp[c].status = 400
        /\ resp[c].error = "Missing required field: DestAirportID"

\* C7: a bundle that fails to load is fatal (the process serves nothing);
\* a prediction is given only with the bundle loaded, a /predict request
\* that finds it not loaded gets an error, and the health probe's
\* model_loaded is true exactly when the bundle is loaded.
C7_NoPredictionWithoutBundle ==
    /\ phase = "exited" =>
          /\ model_data = None
          /\ \A c \in Clients : pc[c] = "idle" /\ resp[c] = NoResponse
    /\ \A c \in Clients :
          /\ resp[c].prediction # None => model_data # None
          /\ (Responded(c) /\ model_data = None) =>
                /\ resp[c].status = 500
                /\ resp[c].error = "Model not loaded"
                /\ resp[c].prediction = None
                /\ consulted[c] = NotConsulted
          /\ resp[c].endpoint = "health" =>
                resp[c].model_loaded = Some(model_data # None)

\* Served without a bundle: one client's /predict answered 500, the
\* other's /health answered model_loaded false.
C7_Witness ==
    /\ model_data = None
    /\ phase = "serving"
    /\ \E c, d \in Clients :
          /\ Responded(c)
          /\ ~LacksRequired(c)
          /\ resp[c].error = "Model not loaded"
          /\ resp[d].endpoint = "health"
          /\ resp[d].model_loaded = Some(FALSE)

\* C8: the table and the prior are set at load and no request writes them
\* (or any other shared state), however requests interleave and whether
\* they succeed or fail.
C8_BundleReadOnly ==
    [][phase = "serving" => (model_data' = model_data /\ phase' = phase)]_vars

\* Two requests in flight on a loaded bundle: one has failed, the other is
\* between the classifier and the table.
C8_Witness ==
    \E c, d \in Clients :
        /\ model_data # None
        /\ Responded(c)
        /\ resp[c].status = 500
        /\ consulted[c].classifier = "raised"
        /\ pc[d] = "lookup"

=============================================================================
